---- MODULE Spec2Model ----
(***************************************************************************)
(* A model of the two speech services of ai-meeting-assistant:             *)
(*   services/whisper/main.py  the speech-to-text service (FastAPI)        *)
(*   services/piper/main.py    the text-to-speech service (FastAPI)        *)
(*                                                                         *)
(* Strings are sequences of one-character strings, bytes are numbers in    *)
(* 0..255, floats that only get compared or passed through are small       *)
(* naturals (a probability in percent, a duration in tenths of a second).  *)
(***************************************************************************)
EXTENDS Integers, Sequences, FiniteSets, TLC

VARIABLES
    _model,     \* whisper: the module-level model handle ("None" or "WhisperModel")
    constructions, \* whisper: how many WhisperModel(...) calls have returned a model
    files,      \* whisper: the temporary files that exist on disk (set of paths)
    req,        \* whisper: per request, the handler's position and what it has produced
    tts,        \* piper: the request being served, its handler's and generator's position
    wav         \* a call of create_wav_header: its arguments and its result

vars == <<_model, constructions, files, req, tts, wav>>

(***************************************************************************)
(* Bounds                                                                  *)
(***************************************************************************)
NumReqs == 1
MaxSegs == 2

Reqs == 1..NumReqs
Paths == 1..NumReqs

(***************************************************************************)
(* Python string helpers, on sequences of characters                       *)
(***************************************************************************)
Whitespace == {" ", "\t", "\n"}

RECURSIVE lstrip(_)
lstrip(s) == IF s # <<>> /\ Head(s) \in Whitespace THEN lstrip(Tail(s)) ELSE s

RECURSIVE rstrip(_)
rstrip(s) ==
    IF s # <<>> /\ s[Len(s)] \in Whitespace
    THEN rstrip(SubSeq(s, 1, Len(s) - 1))
    ELSE s

\* str.strip(): leading and trailing whitespace removed, the inside kept
strip(s) == rstrip(lstrip(s))

\* sep.join(parts)
RECURSIVE join(_, _)
join(sep, parts) ==
    IF parts = <<>> THEN <<>>
    ELSE IF Len(parts) = 1 THEN parts[1]
    ELSE parts[1] \o sep \o join(sep, Tail(parts))

(***************************************************************************)
(* Failures: an exception has a type and a message; the message is a       *)
(* sequence of words and `w in str(e)` is the presence of the word.        *)
(***************************************************************************)
NoSpeechMsg == <<"max()", "iterable", "argument", "is", "empty">>

Messages ==
    { NoSpeechMsg,
      <<"input", "tensor", "is", "empty">>,
      <<"max()", "got", "bad", "input">>,
      <<"out", "of", "memory">> }

ExcTypes == {"ValueError", "RuntimeError"}

Exceptions == [type : ExcTypes, msg : Messages]

Contains(msg, w) == \E i \in DOMAIN msg : msg[i] = w

(***************************************************************************)
(* What the recognition model reports                                      *)
(***************************************************************************)
\* info.language is a code or empty; a falsy number is 0
ModelInfos ==
    { [language |-> "",     language_probability |-> 0,  duration |-> 0],
      [language |-> "fr",   language_probability |-> 98, duration |-> 25],
      [language |-> "en",   language_probability |-> 100, duration |-> 0] }

SegTexts == { <<" ", "h", "e", "l", "l", "o">>, <<"w", "o", "r", "l", "d", " ">> }

\* the i-th span the model yields: consecutive spans of 12 tenths of a second
Segment(i, t) == [start |-> 12 * (i - 1), end |-> 12 * i, text |-> t]

SegLists ==
    UNION { { [i \in 1..n |-> Segment(i, ts[i])] : ts \in [1..n -> SegTexts] }
            : n \in 0..MaxSegs }

NoErr == [type |-> "None", msg |-> <<>>]
NoInfo == [language |-> "", language_probability |-> 0, duration |-> 0]

(***************************************************************************)
(* The environment of one request: where (if anywhere) a call fails and    *)
(* with what, and what the recognition model reports.                      *)
(*   failAt: "none", or the call that raises: "load" (get_model), "read"   *)
(*   (audio.read), "create" (NamedTemporaryFile), "write" (tmp.write),     *)
(*   "transcribe" (model.transcribe), "materialise" (iterating segments)   *)
(***************************************************************************)
Env(failAt, err, info, segs, word_timestamps) ==
    [failAt |-> failAt, err |-> err, info |-> info, segs |-> segs,
     word_timestamps |-> word_timestamps]

NoEnv == Env("none", NoErr, NoInfo, <<>>, FALSE)

BatchEnvs ==
    { Env("none", NoErr, i, s, w) : i \in ModelInfos, s \in SegLists, w \in BOOLEAN }
    \cup { Env(f, e, NoInfo, <<>>, FALSE) :
             f \in {"read", "create", "write", "transcribe"}, e \in Exceptions }
    \cup { Env("materialise", e, i, <<>>, FALSE) : e \in Exceptions, i \in ModelInfos }

(***************************************************************************)
(* Values a handler produces                                               *)
(***************************************************************************)
Return(v) == [kind |-> "return", value |-> v]
Raise(e) == [kind |-> "raise", exc |-> e]

NoResponse == [status |-> 0]

TranscriptionResponse(text, language, language_probability, duration) ==
    [status |-> 200, model |-> "TranscriptionResponse", text |-> text,
     language |-> language, language_probability |-> language_probability,
     duration |-> duration]

TranscriptionSegment(id, start, end, text, words) ==
    [id |-> id, start |-> start, end |-> end, text |-> text, words |-> words]

DetailedTranscriptionResponse(text, language, language_probability, duration, segments) ==
    [status |-> 200, model |-> "DetailedTranscriptionResponse", text |-> text,
     language |-> language, language_probability |-> language_probability,
     duration |-> duration, segments |-> segments]

HTTPException(status_code, detail) ==
    [status |-> status_code, model |-> "HTTPException", detail |-> detail]

StreamingResponse(media_type) ==
    [status |-> 200, model |-> "StreamingResponse", media_type |-> media_type]

\* `x if x else d` on a number (0 and None are falsy)
OrElse(x, d) == IF x # 0 THEN x ELSE d

\* `info.language if info.language else "en"`
LanguageOrEn(info) == IF info.language # "" THEN info.language ELSE "en"

\* the words the model attaches to a span when word timestamps are asked for
SegmentWords(seg, word_timestamps) ==
    IF word_timestamps
    THEN << [word |-> strip(seg.text), start |-> seg.start, end |-> seg.end,
             probability |-> 90] >>
    ELSE <<>>

(***************************************************************************)
(* POST /transcribe, after `await audio.read()`                            *)
(***************************************************************************)
\* the `or` test of the inner handlers (lines 170 and 262)
InnerNoSpeech(e) == Contains(e.msg, "max()") \/ Contains(e.msg, "empty")

\* the `and` test of the outer handlers (lines 212 and 315)
OuterNoSpeech(e) == Contains(e.msg, "max()") /\ Contains(e.msg, "empty")

\* lines 151-202: the body of the inner try, without its finally
transcribe_try(env) ==
    IF env.failAt = "transcribe" THEN Raise(env.err)
    ELSE IF env.failAt = "materialise" THEN
        IF InnerNoSpeech(env.err)
        THEN Return(TranscriptionResponse(<<>>, "en", 0, OrElse(env.info.duration, 0)))
        ELSE Raise(env.err)
    ELSE IF env.segs = <<>> THEN
        Return(TranscriptionResponse(<<>>, LanguageOrEn(env.info),
                   OrElse(env.info.language_probability, 0),
                   OrElse(env.info.duration, 0)))
    ELSE
        Return(TranscriptionResponse(
                   join(<<" ">>, [i \in DOMAIN env.segs |-> strip(env.segs[i].text)]),
                   env.info.language, env.info.language_probability,
                   env.info.duration))

\* lines 208-221: the outer handler
transcribe_except(e) ==
    IF OuterNoSpeech(e)
    THEN TranscriptionResponse(<<>>, "en", 0, 0)
    ELSE HTTPException(500, e.msg)

\* lines 140-221
transcribe(env) ==
    LET body == IF env.failAt \in {"load", "read", "create", "write"}
                THEN Raise(env.err)
                ELSE transcribe_try(env)
    IN  IF body.kind = "return" THEN body.value ELSE transcribe_except(body.exc)

(***************************************************************************)
(* POST /transcribe/detailed, after `await audio.read()`                   *)
(***************************************************************************)
\* detailed_segments with ids counted from one
detailed_segments_from_one(env) ==
    [i \in DOMAIN env.segs |->
        TranscriptionSegment(i, env.segs[i].start, env.segs[i].end,
            strip(env.segs[i].text), <<>>)]

\* lines 273-289: one entry per materialised segment
detailed_segments(env) ==
    [i \in DOMAIN env.segs |->
        TranscriptionSegment(i - 1, env.segs[i].start, env.segs[i].end,
            strip(env.segs[i].text),
            LET words == SegmentWords(env.segs[i], env.word_timestamps)
            IN  IF env.word_timestamps /\ words # <<>> THEN words ELSE <<>>)]

\* lines 245-307: the body of the inner try, without its finally
transcribe_detailed_try(env) ==
    IF env.failAt = "transcribe" THEN Raise(env.err)
    ELSE IF env.failAt = "materialise" THEN
        IF env.err.type = "ValueError" /\ InnerNoSpeech(env.err)
        THEN Return(DetailedTranscriptionResponse(<<>>, "en", 0,
                        OrElse(env.info.duration, 0), <<>>))
        ELSE Raise(env.err)
    ELSE IF detailed_segments(env) = <<>> THEN
        Return(DetailedTranscriptionResponse(<<>>, LanguageOrEn(env.info),
                   OrElse(env.info.language_probability, 0),
                   OrElse(env.info.duration, 0), <<>>))
    ELSE
        Return(DetailedTranscriptionResponse(
                   join(<<" ">>, [i \in DOMAIN env.segs |-> strip(env.segs[i].text)]),
                   env.info.language, env.info.language_probability,
                   env.info.duration, detailed_segments(env)))

\* the outer handler without its no-speech test, as /transcribe/stream has it
transcribe_detailed_except_unchecked(e) == HTTPException(500, e.msg)

\* lines 312-325: the outer handler
transcribe_detailed_except(e) ==
    IF OuterNoSpeech(e)
    THEN DetailedTranscriptionResponse(<<>>, "en", 0, 0, <<>>)
    ELSE HTTPException(500, e.msg)

\* lines 236-325
transcribe_detailed(env) ==
    LET body == IF env.failAt \in {"load", "read", "create", "write"}
                THEN Raise(env.err)
                ELSE transcribe_detailed_try(env)
    IN  IF body.kind = "return" THEN body.value
        ELSE transcribe_detailed_except(body.exc)

(***************************************************************************)
(* The staged temporary file                                               *)
(***************************************************************************)
\* tempfile.NamedTemporaryFile picks a name no existing file has
NewPath(fs) == CHOOSE p \in Paths \ fs : \A q \in Paths \ fs : p <= q

\* NamedTemporaryFile(delete=False) has created the file when the call that
\* fails, if any, comes after the creation
Staged(env) == env.failAt \notin {"load", "read", "create"}

\* the inner try, and so its finally with os.unlink, is entered only after
\* the `with` block has written the upload
Unlinked(env) == Staged(env) /\ env.failAt # "write"

\* the file operations of a batch handler, in order
BatchLog(env) ==
    CASE env.failAt \in {"load", "read", "create"} -> <<>>
      [] env.failAt = "write" -> <<"create">>
      [] env.failAt = "transcribe" -> <<"create", "write", "transcribe", "unlink">>
      [] OTHER -> <<"create", "write", "transcribe", "consume", "unlink">>

(***************************************************************************)
(* POST /transcribe/stream: the events of generate_segments                *)
(***************************************************************************)
\* line 357
InfoEvent(info) ==
    [type |-> "info", language |-> info.language,
     probability |-> info.language_probability]

\* lines 361-367
SegmentEvent(seg) ==
    [type |-> "segment", start |-> seg.start, end |-> seg.end,
     text |-> strip(seg.text)]

\* line 369
DoneEvent == [type |-> "done"]

(***************************************************************************)
(* The state of a request                                                  *)
(*   pc: "idle"; "reading" (suspended in `await audio.read()`);            *)
(*       "responded" (a batch handler has returned or raised);             *)
(*       "gen_created" (StreamingResponse returned, generate_segments not  *)
(*       started); "gen_at_info", "gen_at_segment", "gen_at_done" (the     *)
(*       generator is suspended at that yield); "gen_exhausted" (ran to    *)
(*       its end); "gen_raised" (ended by an exception); "gen_closed"      *)
(*       (closed by the consumer)                                          *)
(*   env: what the environment did to this request (for the properties)    *)
(*   model: the handler's local `model`, the handle get_model returned    *)
(*       ("None": not assigned, the call has not been made or raised)      *)
(***************************************************************************)
Endpoints == {"/transcribe", "/transcribe/detailed", "/transcribe/stream"}

IdleReq ==
    [pc |-> "idle", endpoint |-> "none", tmp_path |-> 0, response |-> NoResponse,
     events |-> <<>>, env |-> NoEnv, log |-> <<>>, model |-> "None"]

\* line 49: the call constructs a model when the handle is unset
get_model_constructs(handle) == handle = "None"

\* a get_model that returns what it constructed without keeping it
get_model_handle_not_kept(handle, loadOk) == handle

\* lines 46-62: the handle after the call, and whether the call raised
get_model_handle(handle, loadOk) ==
    IF handle = "None" /\ loadOk THEN "WhisperModel" ELSE handle

get_model_raises(handle, loadOk) == handle = "None" /\ ~loadOk

\* lines 379-381: the handler of POST /transcribe/stream
transcribe_stream_except(e) == HTTPException(500, e.msg)

\* the response of a request whose get_model call raises
LoadFailure(ep, env) ==
    CASE ep = "/transcribe" -> transcribe(env)
      [] ep = "/transcribe/detailed" -> transcribe_detailed(env)
      [] OTHER -> transcribe_stream_except(env.err)

WInit ==
    /\ _model = "None"
    /\ constructions = 0
    /\ files = {}
    /\ req = [r \in Reqs |-> IdleReq]

\* A request arrives: the handler runs to `await audio.read()`.  get_model
\* is a plain function with no await in it, and the handlers are coroutines
\* of the one event loop, so no other handler runs inside the call.
\* lines 140-144, 236-239, 338-341
Start(r) ==
    /\ req[r].pc = "idle"
    /\ \E ep \in Endpoints, loadOk \in BOOLEAN, e \in Exceptions :
        /\ _model' = get_model_handle(_model, loadOk)
        /\ IF get_model_raises(_model, loadOk)
           THEN req' = [req EXCEPT ![r] =
                    [@ EXCEPT !.pc = "responded", !.endpoint = ep,
                              !.response =
                                  LoadFailure(ep, Env("load", e, NoInfo, <<>>, FALSE)),
                              !.env = Env("load", e, NoInfo, <<>>, FALSE)]]
           ELSE req' = [req EXCEPT ![r] =
                    [@ EXCEPT !.pc = "reading", !.endpoint = ep,
                              !.model = get_model_handle(_model, loadOk)]]
        /\ constructions' = IF get_model_constructs(_model) /\ loadOk
                            THEN constructions + 1 ELSE constructions
    /\ UNCHANGED <<files, tts, wav>>

\* POST /transcribe and /transcribe/detailed from the read to the response.
\* lines 144-221, 239-325
HandleBatch(r) ==
    /\ req[r].pc = "reading"
    /\ req[r].endpoint \in {"/transcribe", "/transcribe/detailed"}
    /\ \E env \in BatchEnvs :
        /\ req[r].endpoint = "/transcribe" => ~env.word_timestamps
        /\ LET p == NewPath(files)
           IN  /\ files' = IF Staged(env) /\ ~Unlinked(env) THEN files \cup {p} ELSE files
               /\ req' = [req EXCEPT ![r] =
                    [@ EXCEPT !.pc = "responded",
                              !.tmp_path = IF Staged(env) THEN p ELSE 0,
                              !.response = IF req[r].endpoint = "/transcribe"
                                           THEN transcribe(env)
                                           ELSE transcribe_detailed(env),
                              !.env = env,
                              !.log = BatchLog(env)]]
    /\ UNCHANGED <<_model, constructions, tts, wav>>

\* POST /transcribe/stream from the read to the returned StreamingResponse.
\* lines 341-381
HandleStream(r) ==
    /\ req[r].pc = "reading"
    /\ req[r].endpoint = "/transcribe/stream"
    /\ \/ \E f \in {"read", "create", "write"}, e \in Exceptions :
            LET env == Env(f, e, NoInfo, <<>>, FALSE)
                p == NewPath(files)
            IN  /\ files' = IF Staged(env) THEN files \cup {p} ELSE files
                /\ req' = [req EXCEPT ![r] =
                     [@ EXCEPT !.pc = "responded",
                               !.tmp_path = IF Staged(env) THEN p ELSE 0,
                               !.response = transcribe_stream_except(e),
                               !.env = env,
                               !.log = IF Staged(env) THEN <<"create">> ELSE <<>>]]
       \/ LET p == NewPath(files)
          IN  /\ files' = files \cup {p}
              /\ req' = [req EXCEPT ![r] =
                     [@ EXCEPT !.pc = "gen_created", !.tmp_path = p,
                               !.response = StreamingResponse("text/event-stream"),
                               !.log = <<"create", "write">>]]
    /\ UNCHANGED <<_model, constructions, tts, wav>>

\* a generate_segments that removes the file as soon as model.transcribe has
\* returned, before the first yield
GenStart_unlinks_before_yield(r) ==
    /\ req[r].pc = "gen_created"
    /\ \/ \E e \in Exceptions :
            /\ files' = files \ {req[r].tmp_path}
            /\ req' = [req EXCEPT ![r] =
                 [@ EXCEPT !.pc = "gen_raised",
                           !.env = Env("transcribe", e, NoInfo, <<>>, FALSE),
                           !.log = @ \o <<"transcribe", "unlink">>]]
       \/ \E info \in ModelInfos :
            /\ files' = files \ {req[r].tmp_path}
            /\ req' = [req EXCEPT ![r] =
                 [@ EXCEPT !.pc = "gen_at_info",
                           !.events = <<InfoEvent(info)>>,
                           !.env = Env("none", NoErr, info, <<>>, FALSE),
                           !.log = @ \o <<"transcribe", "unlink">>]]
    /\ UNCHANGED <<_model, constructions, tts, wav>>

\* The first resumption of generate_segments: model.transcribe, then the info
\* event.  lines 348-357, 371-372
GenStart(r) ==
    /\ req[r].pc = "gen_created"
    /\ \/ \E e \in Exceptions :
            /\ files' = files \ {req[r].tmp_path}
            /\ req' = [req EXCEPT ![r] =
                 [@ EXCEPT !.pc = "gen_raised",
                           !.env = Env("transcribe", e, NoInfo, <<>>, FALSE),
                           !.log = @ \o <<"transcribe", "unlink">>]]
       \/ \E info \in ModelInfos :
            /\ files' = files
            /\ req' = [req EXCEPT ![r] =
                 [@ EXCEPT !.pc = "gen_at_info",
                           !.events = <<InfoEvent(info)>>,
                           !.env = Env("none", NoErr, info, <<>>, FALSE),
                           !.log = @ \o <<"transcribe">>]]
    /\ UNCHANGED <<_model, constructions, tts, wav>>

\* A resumption at the info or a segment yield: the model yields the next
\* span, or ends, or raises.  lines 359-372
GenNext(r) ==
    /\ req[r].pc \in {"gen_at_info", "gen_at_segment"}
    /\ \/ /\ Len(req[r].env.segs) < MaxSegs
          /\ \E t \in SegTexts :
              LET seg == Segment(Len(req[r].env.segs) + 1, t)
              IN  req' = [req EXCEPT ![r] =
                     [@ EXCEPT !.pc = "gen_at_segment",
                               !.events = @ \o <<SegmentEvent(seg)>>,
                               !.env = [@ EXCEPT !.segs = @ \o <<seg>>]]]
          /\ files' = files
       \/ /\ req' = [req EXCEPT ![r] =
                 [@ EXCEPT !.pc = "gen_at_done",
                           !.events = @ \o <<DoneEvent>>,
                           !.log = @ \o <<"consume">>]]
          /\ files' = files
       \/ \E e \in Exceptions :
          /\ req' = [req EXCEPT ![r] =
                 [@ EXCEPT !.pc = "gen_raised",
                           !.env = [@ EXCEPT !.failAt = "materialise", !.err = e],
                           !.log = @ \o <<"consume", "unlink">>]]
          /\ files' = files \ {req[r].tmp_path}
    /\ UNCHANGED <<_model, constructions, tts, wav>>

\* The resumption at the done yield: the try block ends.  lines 369-372
GenFinish(r) ==
    /\ req[r].pc = "gen_at_done"
    /\ files' = files \ {req[r].tmp_path}
    /\ req' = [req EXCEPT ![r] =
           [@ EXCEPT !.pc = "gen_exhausted", !.log = @ \o <<"unlink">>]]
    /\ UNCHANGED <<_model, constructions, tts, wav>>

\* The consumer stops reading and the generator is closed.  A generator
\* suspended at a yield inside the try gets GeneratorExit there and runs the
\* finally; one that was never started has not entered the try, and closing
\* it runs none of its body.  lines 347-372
GenClose(r) ==
    /\ req[r].pc \in {"gen_created", "gen_at_info", "gen_at_segment", "gen_at_done"}
    /\ IF req[r].pc = "gen_created"
       THEN /\ files' = files
            /\ req' = [req EXCEPT ![r] = [@ EXCEPT !.pc = "gen_closed"]]
       ELSE /\ files' = files \ {req[r].tmp_path}
            /\ req' = [req EXCEPT ![r] =
                   [@ EXCEPT !.pc = "gen_closed", !.log = @ \o <<"unlink">>]]
    /\ UNCHANGED <<_model, constructions, tts, wav>>

WNext ==
    \E r \in Reqs :
        \/ Start(r)
        \/ HandleBatch(r)
        \/ HandleStream(r)
        \/ GenStart(r)
        \/ GenNext(r)
        \/ GenFinish(r)
        \/ GenClose(r)


(***************************************************************************)
(* Properties of the transcription service                                 *)
(***************************************************************************)
BatchDone(r) ==
    /\ req[r].endpoint \in {"/transcribe", "/transcribe/detailed"}
    /\ req[r].pc = "responded"

\* the model reports no speech: an empty segment sequence, or the
\* empty-iterable failure while the sequence is materialised
ReportsNoSpeech(env) ==
    \/ env.failAt = "none" /\ env.segs = <<>>
    \/ env.failAt = "materialise" /\ env.err.msg = NoSpeechMsg

\* C1 as stated: on /transcribe and /transcribe/detailed a no-speech report
\* ends in HTTP 200 with text "", language_probability 0.0 and duration 0.0
\* or the source duration.
C1_NoSpeechZeroProbability ==
    \A r \in Reqs :
        BatchDone(r) /\ ReportsNoSpeech(req[r].env) =>
            /\ req[r].response.status = 200
            /\ req[r].response.text = <<>>
            /\ req[r].response.language_probability = 0
            /\ req[r].response.duration \in {0, req[r].env.info.duration}

\* C1 amended: a no-speech report ends in HTTP 200 (never 500) with text ""
\* and duration 0.0 or the source duration; language_probability is 0.0 when
\* materialising the segments failed, and the probability the model reported
\* (0.0 when it reported none) when the segment sequence is empty.
C1_NoSpeechIs200 ==
    \A r \in Reqs :
        BatchDone(r) /\ ReportsNoSpeech(req[r].env) =>
            /\ req[r].response.status = 200
            /\ req[r].response.text = <<>>
            /\ req[r].response.language_probability =
                 IF req[r].env.failAt = "materialise"
                 THEN 0
                 ELSE req[r].env.info.language_probability
            /\ req[r].response.duration \in {0, req[r].env.info.duration}

\* a detailed request whose materialisation failed with the empty-iterable
\* message, raised as another type than ValueError, got its empty result
C1_Witness ==
    \E r \in Reqs :
        /\ BatchDone(r)
        /\ req[r].endpoint = "/transcribe/detailed"
        /\ req[r].env.failAt = "materialise"
        /\ req[r].env.err = [type |-> "RuntimeError", msg |-> NoSpeechMsg]
        /\ req[r].env.info.duration = 25
        /\ req[r].response.status = 200
        /\ req[r].response.text = <<>>

\* C2 as stated: once a /transcribe or /transcribe/detailed request that
\* created its temporary file has completed, the file no longer exists.
C2_TempFileRemoved ==
    \A r \in Reqs :
        BatchDone(r) /\ req[r].tmp_path # 0 => req[r].tmp_path \notin files

\* the ways a /transcribe/stream response ends once its generator exists
StreamEnded(r) ==
    /\ req[r].endpoint = "/transcribe/stream"
    /\ req[r].pc \in {"gen_exhausted", "gen_raised", "gen_closed"}

\* C3 as stated: however the /transcribe/stream response ends (consumed to
\* the end, failure of the model, consumer stopping after some events or
\* before the first), the temporary file has been removed.
C3_StreamFileRemoved ==
    \A r \in Reqs : StreamEnded(r) => req[r].tmp_path \notin files

\* info first, then segment events only, then done as the last event
WellShaped(events) ==
    /\ Len(events) >= 2
    /\ events[1].type = "info"
    /\ events[Len(events)].type = "done"
    /\ \A i \in 2..(Len(events) - 1) : events[i].type = "segment"

\* C4 as stated: every event sequence the generator itself ends (by running
\* to its end or by a failure of the model) is info, segments, done.
C4_EventsEndWithDone ==
    \A r \in Reqs :
        /\ req[r].endpoint = "/transcribe/stream"
        /\ req[r].pc \in {"gen_exhausted", "gen_raised"}
        => WellShaped(req[r].events)

\* C7 as stated: on /transcribe and /transcribe/detailed a failure whose
\* message does not contain both "max()" and "empty" ends in HTTP 500 with
\* the message, never in a 200 empty result, and the other of the two
\* endpoints answers the same failure with the same status.
C7_OtherFailuresAre500 ==
    \A r \in Reqs :
        /\ BatchDone(r)
        /\ req[r].env.failAt # "none"
        /\ ~(Contains(req[r].env.err.msg, "max()") /\ Contains(req[r].env.err.msg, "empty"))
        => /\ req[r].response.status = 500
           /\ req[r].response.detail = req[r].env.err.msg
           /\ transcribe(req[r].env).status = transcribe_detailed(req[r].env).status

\* t is raw without its leading and trailing whitespace
IsTrimOf(t, raw) ==
    /\ t = <<>> \/ (t[1] \notin Whitespace /\ t[Len(t)] \notin Whitespace)
    /\ \E a \in 0..Len(raw) :
         /\ a + Len(t) <= Len(raw)
         /\ \A i \in 1..a : raw[i] \in Whitespace
         /\ \A i \in 1..Len(t) : raw[a + i] = t[i]
         /\ \A i \in (a + Len(t) + 1)..Len(raw) : raw[i] \in Whitespace

\* where the i-th text starts in the space-joined text (0-based offset)
RECURSIVE JoinOffset(_, _)
JoinOffset(texts, i) ==
    IF i = 1 THEN 0 ELSE JoinOffset(texts, i - 1) + Len(texts[i - 1]) + 1

\* full is the texts in order, with exactly one space between neighbours
IsSpaceJoined(full, texts) ==
    LET n == Len(texts)
    IN  /\ Len(full) = JoinOffset(texts, n) + Len(texts[n])
        /\ \A i \in 1..n : \A k \in 1..Len(texts[i]) :
               full[JoinOffset(texts, i) + k] = texts[i][k]
        /\ \A i \in 2..n : full[JoinOffset(texts, i)] = " "

\* C10: a detailed transcription of n >= 1 segments returns n entries, entry
\* i with id i (0-based), the start, end and trimmed text of the i-th segment
\* the model yielded, and a text that is the trimmed texts joined by single
\* spaces in that order.
C10_DetailedSegments ==
    \A r \in Reqs :
        /\ BatchDone(r)
        /\ req[r].endpoint = "/transcribe/detailed"
        /\ req[r].env.failAt = "none"
        /\ Len(req[r].env.segs) >= 1
        => LET out == req[r].response
               segs == req[r].env.segs
           IN  /\ out.status = 200
               /\ Len(out.segments) = Len(segs)
               /\ \A i \in 1..Len(segs) :
                    /\ out.segments[i].id = i - 1
                    /\ out.segments[i].start = segs[i].start
                    /\ out.segments[i].end = segs[i].end
                    /\ IsTrimOf(out.segments[i].text, segs[i].text)
               /\ IsSpaceJoined(out.text,
                      [i \in 1..Len(segs) |-> out.segments[i].text])

\* segments " hello" (0.0-1.2) then "world " (1.2-2.4) gave ids 0 and 1 and
\* the text "hello world"
C10_Witness ==
    \E r \in Reqs :
        /\ BatchDone(r)
        /\ req[r].endpoint = "/transcribe/detailed"
        /\ req[r].env.failAt = "none"
        /\ Len(req[r].env.segs) = 2
        /\ req[r].env.segs[1].text = <<" ", "h", "e", "l", "l", "o">>
        /\ req[r].env.segs[2].text = <<"w", "o", "r", "l", "d", " ">>
        /\ req[r].response.segments[1].id = 0
        /\ req[r].response.segments[2].id = 1
        /\ req[r].response.text =
             <<"h", "e", "l", "l", "o", " ", "w", "o", "r", "l", "d">>

(***************************************************************************)
(***************************************************************************)
(* The synthesis service (services/piper/main.py)                          *)
(***************************************************************************)
(***************************************************************************)

\* the printable ASCII characters, from code 32 (space) to code 126 (the
\* entry of code 96 is spelled out)
Ascii ==
    << " ", "!", "\"", "#", "$", "%", "&", "'", "(", ")", "*", "+",
       ",", "-", ".", "/", "0", "1", "2", "3", "4", "5", "6", "7",
       "8", "9", ":", ";", "<", "=", ">", "?", "@", "A", "B", "C",
       "D", "E", "F", "G", "H", "I", "J", "K", "L", "M", "N", "O",
       "P", "Q", "R", "S", "T", "U", "V", "W", "X", "Y", "Z", "[",
       "\\", "]", "^", "_", "(backtick)", "a", "b", "c", "d", "e", "f", "g",
       "h", "i", "j", "k", "l", "m", "n", "o", "p", "q", "r", "s",
       "t", "u", "v", "w", "x", "y", "z", "{", "|", "}", "~" >>

\* ord(c) of a printable ASCII character
Ord(c) == 31 + (CHOOSE i \in 1..Len(Ascii) : Ascii[i] = c)

\* str.encode of an ASCII string: its characters' codes
Bytes(cs) == [i \in 1..Len(cs) |-> Ord(cs[i])]

\* the concatenation of a sequence of byte strings
RECURSIVE Concat(_)
Concat(ps) == IF ps = <<>> THEN <<>> ELSE Head(ps) \o Concat(Tail(ps))

SAMPLE_RATE == 22050
LENGTH_SCALE == 10
chunk_size == 4096

(***************************************************************************)
(* struct.pack: numbers that may exceed 32 bits are pairs of base-65536     *)
(* limbs, value = hi * 65536 + lo, hi unbounded                            *)
(***************************************************************************)
Limb == 256 * 256

ToNum(n) == [hi |-> n \div Limb, lo |-> n % Limb]

\* a + k for a small natural k
NumPlus(a, k) ==
    [hi |-> a.hi + ((a.lo + k) \div Limb), lo |-> (a.lo + k) % Limb]

\* format 'I': 4 bytes little-endian, for 0 <= number <= 4294967295
FitsI(a) == a.hi >= 0 /\ a.hi < Limb
PackI(a) == <<a.lo % 256, a.lo \div 256, a.hi % 256, a.hi \div 256>>

\* format 'H': 2 bytes little-endian, for 0 <= number <= 65535
FitsH(x) == x >= 0 /\ x < Limb
PackH(x) == <<x % 256, x \div 256>>

StructError == [type |-> "struct.error", msg |-> <<"argument", "out", "of", "range">>]

\* create_wav_header declaring the whole file's size as the ChunkSize
create_wav_header_file_size(sample_rate, num_channels, bits_per_sample, data_size) ==
    Return(Bytes(<<"R", "I", "F", "F">>)
           \o PackI(NumPlus(data_size, 44))
           \o Bytes(<<"W", "A", "V", "E">>)
           \o Bytes(<<"f", "m", "t", " ">>)
           \o PackI(ToNum(16))
           \o PackH(1)
           \o PackH(num_channels)
           \o PackI(ToNum(sample_rate))
           \o PackI(ToNum((sample_rate * num_channels * bits_per_sample) \div 8))
           \o PackH((num_channels * bits_per_sample) \div 8)
           \o PackH(bits_per_sample)
           \o Bytes(<<"d", "a", "t", "a">>)
           \o PackI(data_size))

\* lines 76-97.  data_size is a limb pair, the other arguments are numbers.
create_wav_header(sample_rate, num_channels, bits_per_sample, data_size) ==
    LET byte_rate == (sample_rate * num_channels * bits_per_sample) \div 8
        block_align == (num_channels * bits_per_sample) \div 8
    IN  IF /\ FitsI(NumPlus(data_size, 36))
           /\ FitsH(num_channels)
           /\ FitsI(ToNum(sample_rate))
           /\ FitsI(ToNum(byte_rate))
           /\ FitsH(block_align)
           /\ FitsH(bits_per_sample)
           /\ FitsI(data_size)
        THEN Return(Bytes(<<"R", "I", "F", "F">>)
                    \o PackI(NumPlus(data_size, 36))
                    \o Bytes(<<"W", "A", "V", "E">>)
                    \o Bytes(<<"f", "m", "t", " ">>)
                    \o PackI(ToNum(16))
                    \o PackH(1)
                    \o PackH(num_channels)
                    \o PackI(ToNum(sample_rate))
                    \o PackI(ToNum(byte_rate))
                    \o PackH(block_align)
                    \o PackH(bits_per_sample)
                    \o Bytes(<<"d", "a", "t", "a">>)
                    \o PackI(data_size))
        ELSE Raise(StructError)

(***************************************************************************)
(* The synthesis executable, as the environment of one request             *)
(***************************************************************************)
MaxPcm == 10000

\* the PCM bytes of an n-byte output (byte 1 is 10, a newline)
Pcm(n) == [i \in 1..n |-> (7 * i + 3) % 251]

PcmLens ==
    {0, 1, chunk_size - 1, chunk_size, chunk_size + 1, 2 * chunk_size, MaxPcm}

\* found: the executable exists; returncode, stdout, stderr: what it gave
Procs ==
    { [found |-> FALSE, returncode |-> 0, stdout |-> <<>>, stderr |-> ""],
      [found |-> TRUE, returncode |-> 1, stdout |-> <<>>, stderr |-> "no such model"],
      [found |-> TRUE, returncode |-> 1, stdout |-> Pcm(1), stderr |-> ""] }
    \cup { [found |-> TRUE, returncode |-> 0, stdout |-> Pcm(n), stderr |-> ""] :
             n \in PcmLens }

\* request texts, as code points: "hi", "a\nb", a quote and a backslash,
\* e-acute and a newline
Texts == { <<104, 105>>, <<97, 10, 98>>, <<34, 92>>, <<233, 10>> }

Speeds == {"slow", "normal", "fast", "very_fast", "turbo", "None"}

SpeakRequests == [text : Texts, speed : Speeds]

\* what a client sends for the speed: a string, null ("None"), or no speed
\* at all ("absent")
SpeedInputs == Speeds \cup {"absent"}

\* SpeakRequest(...) as pydantic builds it from the body: a missing speed
\* takes the field's default, "normal"
SpeakRequest(text, speed) ==
    [text |-> text, speed |-> IF speed = "absent" THEN "normal" ELSE speed]

\* the query parameters of GET /speak: a missing speed takes Query("normal")
SpeakGetQuery(text, speed) ==
    [text |-> text, speed |-> IF speed = "absent" THEN "normal" ELSE speed]

\* the module's configuration, read from the process environment at import:
\* LENGTH_SCALE is float(os.getenv("PIPER_LENGTH_SCALE", "1.0")), in tenths:
\* the variable unset, or set to "1.2"
DefaultConfig == [LENGTH_SCALE |-> LENGTH_SCALE]

Configs == { DefaultConfig, [LENGTH_SCALE |-> 12] }

\* a mapping whose fallback is 1.0 whatever the configuration
SpeedToLengthScale_fixed_default(speed, config) ==
    CASE speed = "slow" -> 13
      [] speed = "normal" -> 10
      [] speed = "fast" -> 8
      [] speed = "very_fast" -> 6
      [] OTHER -> 10

\* lines 51-56 and SPEED_PRESETS.get(speed, LENGTH_SCALE), in tenths
SpeedToLengthScale(speed, config) ==
    CASE speed = "slow" -> 13
      [] speed = "normal" -> 10
      [] speed = "fast" -> 8
      [] speed = "very_fast" -> 6
      [] OTHER -> config.LENGTH_SCALE

RuntimeError(msg) == [type |-> "RuntimeError", msg |-> msg]

\* synthesize_speech without the test of the exit code
synthesize_speech_any_exit(text, length_scale, proc) ==
    IF ~proc.found
    THEN Raise(RuntimeError(<<"Piper executable not found. Please install Piper and set PIPER_PATH.">>))
    ELSE Return(proc.stdout)

\* lines 100-145
synthesize_speech(text, length_scale, proc) ==
    IF ~proc.found
    THEN Raise(RuntimeError(<<"Piper executable not found. Please install Piper and set PIPER_PATH.">>))
    ELSE IF proc.returncode # 0
    THEN Raise(RuntimeError(<<"Piper synthesis failed: ",
                              IF proc.stderr # "" THEN proc.stderr ELSE "Unknown error">>))
    ELSE Return(proc.stdout)

\* str(HTTPException(status_code=500, detail=d)), as Starlette's __str__
\* gives it: "<status_code>: <detail>"
StrHTTPException(d) == <<"500: ", d>>

Response(content, media_type, headers) ==
    [status |-> 200, model |-> "Response", content |-> content,
     media_type |-> media_type, headers |-> headers]

\* len(raw_audio) / (SAMPLE_RATE * 2), kept as a fraction
Duration(raw_audio) == [num |-> Len(raw_audio), den |-> SAMPLE_RATE * 2]

\* lines 199-244, and GET /speak (lines 257-258), which calls it
speak(request, proc, config) ==
    LET syn == synthesize_speech(request.text,
                                 SpeedToLengthScale(request.speed, config), proc)
    IN  IF syn.kind = "raise" THEN HTTPException(500, syn.exc.msg)
        ELSE IF syn.value = <<>>
        THEN HTTPException(500, StrHTTPException("No audio data generated"))
        ELSE LET wav_header == create_wav_header(SAMPLE_RATE, 1, 16, ToNum(Len(syn.value)))
             IN  IF wav_header.kind = "raise"
                 THEN HTTPException(500, wav_header.exc.msg)
                 ELSE Response(wav_header.value \o syn.value, "audio/wav",
                          [duration |-> Duration(syn.value), sample_rate |-> SAMPLE_RATE])

\* lines 268-314: the response, and the generator's wav_header and raw_audio
speak_stream(request, proc, config) ==
    LET syn == synthesize_speech(request.text,
                                 SpeedToLengthScale(request.speed, config), proc)
        failed(detail) == [response |-> HTTPException(500, detail),
                           wav_header |-> <<>>, raw_audio |-> <<>>]
    IN  IF syn.kind = "raise" THEN failed(syn.exc.msg)
        ELSE IF syn.value = <<>>
        THEN failed(StrHTTPException("No audio data generated"))
        ELSE LET wav_header == create_wav_header(SAMPLE_RATE, 1, 16, ToNum(Len(syn.value)))
             IN  IF wav_header.kind = "raise"
                 THEN failed(wav_header.exc.msg)
                 ELSE [response |-> StreamingResponse("audio/wav"),
                       wav_header |-> wav_header.value, raw_audio |-> syn.value]

\* a slice that stops one byte early
Slice_short(raw_audio, i, n) ==
    SubSeq(raw_audio, i + 1,
           IF i + n - 1 < Len(raw_audio) THEN i + n - 1 ELSE Len(raw_audio))

\* raw_audio[i:i + chunk_size]
Slice(raw_audio, i, n) ==
    SubSeq(raw_audio, i + 1, IF i + n < Len(raw_audio) THEN i + n ELSE Len(raw_audio))

(***************************************************************************)
(* json.dumps of the metadata of POST /speak/chunks                        *)
(***************************************************************************)
\* the decimal digits of a natural
RECURSIVE Digits(_)
Digits(n) == IF n < 10 THEN <<48 + n>> ELSE Digits(n \div 10) \o <<48 + (n % 10)>>

HexDigit(d) == IF d < 10 THEN 48 + d ELSE 87 + d

\* '\\u{0:04x}' of a code point below 65536
UEscape(c) ==
    <<92, 117, HexDigit(c \div 4096), HexDigit((c \div 256) % 16),
      HexDigit((c \div 16) % 16), HexDigit(c % 16)>>

\* an escape of the quote and the backslash only
JsonEscapeChar_quotes_only(c) ==
    CASE c = 34 -> <<92, 34>>
      [] c = 92 -> <<92, 92>>
      [] OTHER -> <<c>>

\* json.encoder.py_encode_basestring_ascii, one character
JsonEscapeChar(c) ==
    CASE c = 34 -> <<92, 34>>
      [] c = 92 -> <<92, 92>>
      [] c = 10 -> <<92, 110>>
      [] c = 13 -> <<92, 114>>
      [] c = 9 -> <<92, 116>>
      [] c = 8 -> <<92, 98>>
      [] c = 12 -> <<92, 102>>
      [] c \notin {8, 9, 10, 12, 13, 34, 92} /\ (c < 32 \/ c > 126) -> UEscape(c)
      [] OTHER -> <<c>>

\* json.dumps of a str (ensure_ascii): the quoted, escaped characters
JsonString(text) ==
    <<34>> \o Concat([i \in 1..Len(text) |-> JsonEscapeChar(text[i])]) \o <<34>>

\* json.dumps of the float num/den: the integer part, a point and six
\* decimals (float.__repr__ gives the shortest digits that round-trip, with
\* an exponent for small values; its characters are digits, ".", "e", "-")
RECURSIVE Decimals(_, _, _)
Decimals(rem, den, k) ==
    IF k = 0 THEN <<>>
    ELSE <<48 + ((rem * 10) \div den)>> \o Decimals((rem * 10) % den, den, k - 1)

JsonFloat(d) == Digits(d.num \div d.den) \o <<46>> \o Decimals(d.num % d.den, d.den, 6)

\* lines 343-351: json.dumps(metadata) up to the text's value
MetadataPrefix(duration) ==
    Bytes(<< "{", "\"", "t", "y", "p", "e", "\"", ":", " ", "\"", "m", "e",
           "t", "a", "d", "a", "t", "a", "\"", ",", " ", "\"", "s", "a",
           "m", "p", "l", "e", "_", "r", "a", "t", "e", "\"", ":", " " >>)
    \o Digits(SAMPLE_RATE)
    \o Bytes(<< ",", " ", "\"", "c", "h", "a", "n", "n", "e", "l", "s", "\"",
              ":", " ", "1", ",", " ", "\"", "b", "i", "t", "s", "_", "p",
              "e", "r", "_", "s", "a", "m", "p", "l", "e", "\"", ":", " ",
              "1", "6", ",", " ", "\"", "d", "u", "r", "a", "t", "i", "o",
              "n", "\"", ":", " " >>)
    \o JsonFloat(duration)
    \o Bytes(<< ",", " ", "\"", "t", "e", "x", "t", "\"", ":", " " >>)

\* line 351: f"{json.dumps(metadata)}\n".encode('utf-8')
MetadataLine(duration, text) ==
    MetadataPrefix(duration) \o JsonString(text) \o Bytes(<<"}">>) \o <<10>>

\* lines 324-363: the response, and the generator's duration and raw_audio
speak_chunks(request, proc, config) ==
    LET syn == synthesize_speech(request.text,
                                 SpeedToLengthScale(request.speed, config), proc)
    IN  IF syn.kind = "raise"
        THEN [response |-> HTTPException(500, syn.exc.msg), raw_audio |-> <<>>]
        ELSE IF syn.value = <<>>
        THEN [response |-> HTTPException(500, StrHTTPException("No audio data generated")),
              raw_audio |-> <<>>]
        ELSE [response |-> StreamingResponse("application/octet-stream"),
              raw_audio |-> syn.value]

(***************************************************************************)
(* The state of the synthesis request                                      *)
(*   config: the configuration the process was started with                *)
(*   speed: the speed the client sent ("absent": none); request: the       *)
(*       SpeakRequest built from it; cmd: the options of the executable    *)
(*   pc: "idle"; "responded" (the handler returned a whole response or     *)
(*       raised); "gen_created" (StreamingResponse returned, the generator *)
(*       not started); "gen_at_header", "gen_at_chunk" (generate_audio is  *)
(*       suspended at that yield); "gen_at_metadata", "gen_at_audio"       *)
(*       (generate_with_metadata is); "gen_exhausted"                      *)
(*   i: the start of the next slice of generate_audio's loop               *)
(***************************************************************************)
SpeakEndpoints == {"POST /speak", "GET /speak", "POST /speak/stream", "POST /speak/chunks"}

NoProc == [found |-> FALSE, returncode |-> 0, stdout |-> <<>>, stderr |-> ""]

\* lines 110-117: the options the executable is run with
piper_cmd(length_scale) == [length_scale |-> length_scale]

IdleTts(config) ==
    [pc |-> "idle", endpoint |-> "none", config |-> config, speed |-> "None",
     request |-> [text |-> <<>>, speed |-> "None"],
     proc |-> NoProc, cmd |-> piper_cmd(0), response |-> NoResponse,
     wav_header |-> <<>>, raw_audio |-> <<>>, pieces |-> <<>>, i |-> 0]

\* the service starts under any of the configurations
PInit == \E config \in Configs : tts = IdleTts(config)

\* POST /speak and GET /speak, whole.  lines 192-258
Speak ==
    /\ tts.pc = "idle"
    /\ \E ep \in {"POST /speak", "GET /speak"}, text \in Texts,
          speed \in SpeedInputs, proc \in Procs :
        \* the speed of GET /speak is a str query parameter
        /\ ep = "GET /speak" => speed # "None"
        /\ LET request == IF ep = "GET /speak"
                          THEN SpeakRequest(SpeakGetQuery(text, speed).text,
                                            SpeakGetQuery(text, speed).speed)
                          ELSE SpeakRequest(text, speed)
           IN  tts' = [tts EXCEPT
                   !.pc = "responded", !.endpoint = ep, !.speed = speed,
                   !.request = request, !.proc = proc,
                   !.cmd = piper_cmd(SpeedToLengthScale(request.speed, tts.config)),
                   !.response = speak(request, proc, tts.config)]
    /\ UNCHANGED <<_model, constructions, files, req, wav>>

\* POST /speak/stream up to the returned StreamingResponse.  lines 261-314
SpeakStream ==
    /\ tts.pc = "idle"
    /\ \E text \in Texts, speed \in SpeedInputs, proc \in Procs :
        LET request == SpeakRequest(text, speed)
            out == speak_stream(request, proc, tts.config)
        IN  tts' = [tts EXCEPT
                !.pc = IF out.response.status = 200 THEN "gen_created" ELSE "responded",
                !.endpoint = "POST /speak/stream", !.speed = speed,
                !.request = request, !.proc = proc,
                !.cmd = piper_cmd(SpeedToLengthScale(request.speed, tts.config)),
                !.response = out.response,
                !.wav_header = out.wav_header, !.raw_audio = out.raw_audio]
    /\ UNCHANGED <<_model, constructions, files, req, wav>>

\* One resumption of generate_audio.  lines 290-298
GenerateAudioNext ==
    /\ tts.endpoint = "POST /speak/stream"
    /\ \/ /\ tts.pc = "gen_created"
          /\ tts' = [tts EXCEPT !.pc = "gen_at_header",
                                !.pieces = <<tts.wav_header>>, !.i = 0]
       \/ /\ tts.pc \in {"gen_at_header", "gen_at_chunk"}
          /\ tts.i < Len(tts.raw_audio)
          /\ tts' = [tts EXCEPT !.pc = "gen_at_chunk",
                                !.pieces = @ \o <<Slice(tts.raw_audio, tts.i, chunk_size)>>,
                                !.i = @ + chunk_size]
       \/ /\ tts.pc \in {"gen_at_header", "gen_at_chunk"}
          /\ tts.i >= Len(tts.raw_audio)
          /\ tts' = [tts EXCEPT !.pc = "gen_exhausted"]
    /\ UNCHANGED <<_model, constructions, files, req, wav>>

\* POST /speak/chunks up to the returned StreamingResponse.  lines 317-363
SpeakChunks ==
    /\ tts.pc = "idle"
    /\ \E text \in Texts, speed \in SpeedInputs, proc \in Procs :
        LET request == SpeakRequest(text, speed)
            out == speak_chunks(request, proc, tts.config)
        IN  tts' = [tts EXCEPT
                !.pc = IF out.response.status = 200 THEN "gen_created" ELSE "responded",
                !.endpoint = "POST /speak/chunks", !.speed = speed,
                !.request = request, !.proc = proc,
                !.cmd = piper_cmd(SpeedToLengthScale(request.speed, tts.config)),
                !.response = out.response,
                !.raw_audio = out.raw_audio]
    /\ UNCHANGED <<_model, constructions, files, req, wav>>

\* One resumption of generate_with_metadata.  lines 340-354
GenerateWithMetadataNext ==
    /\ tts.endpoint = "POST /speak/chunks"
    /\ \/ /\ tts.pc = "gen_created"
          /\ tts' = [tts EXCEPT !.pc = "gen_at_metadata",
                       !.pieces = <<MetadataLine(Duration(tts.raw_audio), tts.request.text)>>]
       \/ /\ tts.pc = "gen_at_metadata"
          /\ tts' = [tts EXCEPT !.pc = "gen_at_audio",
                                !.pieces = @ \o <<tts.raw_audio>>]
       \/ /\ tts.pc = "gen_at_audio"
          /\ tts' = [tts EXCEPT !.pc = "gen_exhausted"]
    /\ UNCHANGED <<_model, constructions, files, req, wav>>

PNext ==
    \/ Speak
    \/ SpeakStream
    \/ GenerateAudioNext
    \/ SpeakChunks
    \/ GenerateWithMetadataNext

(***************************************************************************)
(* Calls of create_wav_header on their own                                 *)
(***************************************************************************)
\* sample rate, channel count, bit depth
WavFormats ==
    { <<22050, 1, 16>>, <<44100, 2, 16>>, <<8000, 1, 8>>, <<48000, 2, 24>>,
      <<22050, 1, 12>>, <<1, 65535, 8>>, <<1, 65536, 8>>, <<1, 1, 65536>> }

\* PCM byte lengths: small ones, the ones around a carry into the high limb,
\* and the ones around 2^32 - 36
DataSizes ==
    { ToNum(n) : n \in {0, 1, 4095, 4096, 10000, 65499, 65500, 65536} }
    \cup { [hi |-> 65535, lo |-> 65499], [hi |-> 65535, lo |-> 65500],
           [hi |-> 65535, lo |-> 65535], [hi |-> 65536, lo |-> 0] }

NoWav == [pc |-> "none", format |-> <<0, 0, 0>>, data_size |-> ToNum(0),
          result |-> Raise(NoErr)]

WavInit ==
    wav \in { [pc |-> "call", format |-> f, data_size |-> n, result |-> Raise(NoErr)] :
                f \in WavFormats, n \in DataSizes }

CallCreateWavHeader ==
    /\ wav.pc = "call"
    /\ wav' = [wav EXCEPT !.pc = "returned",
                          !.result = create_wav_header(wav.format[1], wav.format[2],
                                                       wav.format[3], wav.data_size)]
    /\ UNCHANGED <<_model, constructions, files, req, tts>>

(***************************************************************************)
(* Specifications                                                          *)
(***************************************************************************)
\* the transcription service
Init == WInit /\ tts = IdleTts(DefaultConfig) /\ wav = NoWav
Spec == Init /\ [][WNext]_vars

\* the synthesis service
SpecPiperInit == WInit /\ PInit /\ wav = NoWav
SpecPiper == SpecPiperInit /\ [][PNext]_vars

\* create_wav_header on its own
SpecWavInit == WInit /\ tts = IdleTts(DefaultConfig) /\ WavInit
SpecWav == SpecWavInit /\ [][CallCreateWavHeader]_vars

\* the transcription service with several clients calling in, each followed
\* to its get_model call and the await after it
NumClients == 3

Clients == 1..NumClients

SpecModelInit ==
    /\ _model = "None"
    /\ constructions = 0
    /\ files = {}
    /\ req = [r \in Clients |-> IdleReq]
    /\ tts = IdleTts(DefaultConfig)
    /\ wav = NoWav

ClientCalls == \E r \in Clients : Start(r)

SpecModel == SpecModelInit /\ [][ClientCalls]_vars

(***************************************************************************)
(* Properties of the synthesis service                                     *)
(***************************************************************************)
\* the 32-bit little-endian field at bytes k..k+3 (1-based), as a limb pair
Field32(bytes, k) ==
    [hi |-> bytes[k + 2] + 256 * bytes[k + 3], lo |-> bytes[k] + 256 * bytes[k + 1]]

\* a - b of two limb pairs whose difference is small
NumMinus(a, b) == (a.hi - b.hi) * Limb + (a.lo - b.lo)

\* every packed field is within its width: 36 + N <= 2^32 - 1, and the
\* channel count, block alignment and bit depth are at most 65535
WavArgsFit(format, data_size) ==
    /\ data_size.hi < 65535 \/ (data_size.hi = 65535 /\ data_size.lo <= 65499)
    /\ format[2] <= 65535
    /\ (format[2] * format[3]) \div 8 <= 65535
    /\ format[3] <= 65535

\* the header declares ChunkSize 36 + N and Subchunk2Size N
DeclaresSizes(header, data_size) ==
    /\ Len(header) = 44
    /\ NumMinus(Field32(header, 5), data_size) = 36
    /\ Field32(header, 41) = data_size

\* C6 as stated: for every N >= 0 and every sample rate, channel count and
\* bit depth, create_wav_header returns a header with ChunkSize 36 + N and
\* Subchunk2Size N.
C6_HeaderForEveryInput ==
    wav.pc = "returned" =>
        /\ wav.result.kind = "return"
        /\ DeclaresSizes(wav.result.value, wav.data_size)

\* C6 amended: create_wav_header returns a header exactly when every field
\* fits its packed width (36 + N <= 2^32 - 1; channel count, block alignment
\* and bit depth <= 65535), and that header has ChunkSize 36 + N and
\* Subchunk2Size N; for other arguments it raises and gives no header.
C6_HeaderSizes ==
    wav.pc = "returned" =>
        /\ wav.result.kind = "return" <=> WavArgsFit(wav.format, wav.data_size)
        /\ wav.result.kind = "return" =>
               DeclaresSizes(wav.result.value, wav.data_size)

\* the header of 65500 bytes of PCM: 36 + N carries into the high limb
C6_Witness ==
    /\ wav.pc = "returned"
    /\ wav.data_size = ToNum(65500)
    /\ wav.format = <<22050, 1, 16>>
    /\ wav.result.kind = "return"
    /\ Field32(wav.result.value, 5) = [hi |-> 1, lo |-> 0]
    /\ Field32(wav.result.value, 41) = [hi |-> 0, lo |-> 65500]

\* the synthesis of the request gave a PCM buffer (of any length)
Synthesized == tts.proc.found /\ tts.proc.returncode = 0

StreamRequestOver ==
    /\ tts.endpoint = "POST /speak/stream"
    /\ tts.pc \in {"responded", "gen_exhausted"}

\* the pieces are the header, then the PCM in order in pieces of at most
\* chunk_size bytes, and together they are what POST /speak returns
PiecesAreWhole(pieces, whole, pcm) ==
    /\ whole.status = 200
    /\ Len(pieces) >= 1
    /\ Len(pieces[1]) = 44
    /\ \A k \in 2..Len(pieces) : Len(pieces[k]) >= 1 /\ Len(pieces[k]) <= chunk_size
    /\ Concat(Tail(pieces)) = pcm
    /\ Concat(pieces) = whole.content
    /\ Len(whole.content) = 44 + Len(pcm)
    /\ SubSeq(whole.content, 45, Len(whole.content)) = pcm
    /\ Field32(whole.content, 41) = ToNum(Len(pcm))

SynthesisFailed(proc) ==
    \/ ~proc.found
    \/ proc.returncode # 0
    \/ proc.stdout = <<>>

\* C8: on every synthesis endpoint a failed synthesis ends in an
\* HTTPException of status 500 (whose detail, for a missing executable or a
\* non-zero exit, is the failure's message) and never in a success response
\* or a stream, and a success response carries the non-empty PCM.
C8_SynthesisFailureIs500 ==
    tts.pc # "idle" =>
        /\ SynthesisFailed(tts.proc) =>
              /\ tts.pc = "responded"
              /\ tts.response.status = 500
              /\ tts.response.model = "HTTPException"
              /\ ~tts.proc.found =>
                    tts.response.detail[1] = "Piper executable not found. Please install Piper and set PIPER_PATH."
              /\ tts.proc.found /\ tts.proc.returncode # 0 =>
                    tts.response.detail[1] = "Piper synthesis failed: "
              /\ tts.pieces = <<>>
        /\ tts.response.status = 200 =>
              /\ ~SynthesisFailed(tts.proc)
              /\ IF tts.response.model = "Response"
                 THEN /\ Len(tts.response.content) > 44
                      /\ SubSeq(tts.response.content, 45, Len(tts.response.content))
                           = tts.proc.stdout
                 ELSE tts.raw_audio = tts.proc.stdout /\ tts.raw_audio # <<>>

\* the executable exited non-zero after writing a byte of audio, and the
\* request ended in 500
C8_Witness ==
    /\ tts.pc = "responded"
    /\ tts.endpoint = "POST /speak/chunks"
    /\ tts.proc.found
    /\ tts.proc.returncode = 1
    /\ tts.proc.stdout # <<>>
    /\ tts.response.status = 500

\* the value of a lowercase hexadecimal digit
HexVal(b) == IF b >= 97 THEN b - 87 ELSE b - 48

\* the characters a JSON string body stands for
RECURSIVE JsonUnescape(_)
JsonUnescape(bs) ==
    IF bs = <<>> THEN <<>>
    ELSE IF bs[1] # 92 THEN <<bs[1]>> \o JsonUnescape(Tail(bs))
    ELSE IF bs[2] = 117
    THEN <<4096 * HexVal(bs[3]) + 256 * HexVal(bs[4]) + 16 * HexVal(bs[5]) + HexVal(bs[6])>>
         \o JsonUnescape(SubSeq(bs, 7, Len(bs)))
    ELSE << CASE bs[2] = 110 -> 10
              [] bs[2] = 114 -> 13
              [] bs[2] = 116 -> 9
              [] bs[2] = 98 -> 8
              [] bs[2] = 102 -> 12
              [] OTHER -> bs[2] >>
         \o JsonUnescape(SubSeq(bs, 3, Len(bs)))

ChunksStreamOver ==
    /\ tts.endpoint = "POST /speak/chunks"
    /\ tts.pc = "gen_exhausted"

\* C9: the stream of POST /speak/chunks has a newline, the first one ends
\* the metadata line, what follows it is exactly the synthesized PCM, and
\* what precedes it is the JSON object whose text value stands for the
\* request's text.
C9_MetadataLineThenPcm ==
    ChunksStreamOver =>
        LET stream == Concat(tts.pieces)
            prefix == MetadataPrefix(Duration(tts.proc.stdout))
        IN  /\ \E k \in 1..Len(stream) : stream[k] = 10
            /\ LET k == CHOOSE j \in 1..Len(stream) :
                          stream[j] = 10 /\ \A h \in 1..(j - 1) : stream[h] # 10
                   left == SubSeq(stream, 1, k - 1)
               IN  /\ SubSeq(stream, k + 1, Len(stream)) = tts.proc.stdout
                   /\ Len(left) >= Len(prefix) + 3
                   /\ SubSeq(left, 1, Len(prefix)) = prefix
                   /\ left[Len(prefix) + 1] = 34
                   /\ left[Len(left) - 1] = 34
                   /\ left[Len(left)] = 125
                   /\ JsonUnescape(SubSeq(left, Len(prefix) + 2, Len(left) - 2))
                        = tts.request.text

\* the stream of the text "a\nb" ended, with PCM that starts with byte 10
C9_Witness ==
    /\ ChunksStreamOver
    /\ tts.request.text = <<97, 10, 98>>
    /\ tts.proc.stdout[1] = 10
    /\ Len(tts.pieces) = 2

(***************************************************************************)
(* The length-scale of a request                                           *)
(***************************************************************************)
\* C11 as stated: on every synthesis endpoint the executable is run with
\* 1.3, 1.0, 0.8 or 0.6 for the four presets and with the configured default
\* for any other speed, an unknown string, null or no speed at all; and the
\* speed never makes a request fail that the executable serves.
C11_LengthScaleFromSpeed ==
    tts.pc # "idle" =>
        /\ tts.cmd.length_scale =
              CASE tts.speed = "slow" -> 13
                [] tts.speed = "normal" -> 10
                [] tts.speed = "fast" -> 8
                [] tts.speed = "very_fast" -> 6
                [] OTHER -> tts.config.LENGTH_SCALE
        /\ ~SynthesisFailed(tts.proc) => tts.response.status = 200

\* C11, amended: the four presets give 1.3, 1.0, 0.8 and 0.6, a request
\* that sends no speed is served as "normal" with 1.0 whatever the
\* configuration, and null or an unknown string gives the configured
\* default; the speed never makes a request fail that the executable serves.
C11_LengthScaleAbsentIsNormal ==
    tts.pc # "idle" =>
        /\ tts.cmd.length_scale =
              CASE tts.speed = "slow" -> 13
                [] tts.speed \in {"normal", "absent"} -> 10
                [] tts.speed = "fast" -> 8
                [] tts.speed = "very_fast" -> 6
                [] OTHER -> tts.config.LENGTH_SCALE
        /\ ~SynthesisFailed(tts.proc) => tts.response.status = 200

\* a request without a speed was served under a configured default of 1.2
C11_Witness ==
    /\ tts.pc # "idle"
    /\ tts.speed = "absent"
    /\ tts.config.LENGTH_SCALE = 12
    /\ tts.cmd.length_scale = 10
    /\ tts.response.status = 200

(***************************************************************************)
(* The model handle                                                        *)
(***************************************************************************)
\* the request has made its get_model call
Called(r) == req[r].pc # "idle"

\* its get_model call raised
LoadFailed(r) == Called(r) /\ req[r].env.failAt = "load"

\* its get_model call returned
Loaded(r) == Called(r) /\ ~LoadFailed(r)

\* C12: whatever the order in which requests reach the handlers, at most one
\* WhisperModel(...) call ever returns a model; every get_model call that
\* returns gives the one handle the module holds; a call that raises gives
\* its handler nothing, and as long as no construction has succeeded the
\* handle is unset, so that the next call constructs.
C12_ModelConstructedOnce ==
    /\ constructions <= 1
    /\ constructions = 0 <=> _model = "None"
    /\ \A r \in DOMAIN req :
          /\ Loaded(r) => req[r].model = "WhisperModel" /\ req[r].model = _model
          /\ LoadFailed(r) => req[r].model = "None"
    /\ (\E r \in DOMAIN req : Loaded(r)) <=> constructions = 1

\* one call failed to construct, a later one constructed, a third reused
C12_Witness ==
    \E a, b, c \in DOMAIN req :
        /\ b # c
        /\ LoadFailed(a)
        /\ Loaded(b) /\ req[b].pc = "reading"
        /\ Loaded(c) /\ req[c].pc = "reading" /\ req[c].model = req[b].model
        /\ constructions = 1

(***************************************************************************)
(* The life of the staged file                                             *)
(***************************************************************************)
\* how many times op occurs among the file operations of a request
Count(log, op) == Cardinality({i \in 1..Len(log) : log[i] = op})

\* the request has run its os.unlink
Removed(r) == Count(req[r].log, "unlink") > 0

=============================================================================
